---- MODULE Spec2Model ----
(***************************************************************************)
(* examples/nlp/ner.py: a straight-line script that fine-tunes a BERT      *)
(* token classifier for NER.  The state is the script's module globals,    *)
(* the command line and the environment it reads, the position in the      *)
(* module body (pc), the exception that ended the run (error), and two     *)
(* history variables: the calls made into the framework (calls) and the    *)
(* exceptions raised during the run (raised).                              *)
(***************************************************************************)
EXTENDS Integers, Sequences, FiniteSets, TLC

VARIABLES
    pc,                 \* position in the module body
    argv,               \* the command line, as argparse will read it
    env,                \* files and packages the run depends on
    args,               \* args = parser.parse_args()
    error,              \* the exception that propagated out of the script
    raised,             \* history: every exception raised during the run
    calls,              \* history: every call into nemo / nemo_nlp / tensorboardX
    tb_writer, device, optimization_level, neural_factory,
    tokenizer, bert_model, vocab_size,
    train_data_layer, ner_loss, train_loss,
    eval_data_layer, eval_logits,
    callback_train, train_data_size, steps_per_epoch, callback_eval,
    lr_policy_func,
    train_kwargs        \* the keyword arguments of neural_factory.train

vars == <<pc, argv, env, args, error, raised, calls, tb_writer, device,
          optimization_level, neural_factory, tokenizer, bert_model,
          vocab_size, train_data_layer, ner_loss, train_loss,
          eval_data_layer, eval_logits, callback_train, train_data_size,
          steps_per_epoch, callback_eval, lr_policy_func, train_kwargs>>

-----------------------------------------------------------------------------
(* Bounds of the explored inputs. *)
MaxBatch == 3
MaxGpus == 2
MaxEpochs == 2
MaxVocab == 17
MaxData == 7

(* Program constants. *)
DefaultBatchSize == 32
DefaultNumGpus == 1
DefaultNumEpochs == 1
PadMultiple == 8

(* Python's None for a module global holding an object; an optional scalar  *)
(* is <<>> (None) or <<v>>.                                                 *)
None == [cls |-> "None"]

ValidLrPolicies == {"lr_warmup", "lr_poly", "lr_cosine"}
LrPolicies == ValidLrPolicies \cup {"lr_exp"}
WarmupProportions == {"0.1", "0.3"}

-----------------------------------------------------------------------------
(* Pure arithmetic of the script. *)

Abs(n) == IF n < 0 THEN 0 - n ELSE n

(* Variant: rounds the quotient up instead of truncating it. *)
IntTrueDiv_Ceil(a, b) ==
    IF (a < 0) = (b < 0)
    THEN (Abs(a) + Abs(b) - 1) \div Abs(b)
    ELSE 0 - (Abs(a) \div Abs(b))

(* int(a / b), b # 0: true division followed by truncation toward zero.    *)
IntTrueDiv(a, b) ==
    IF (a < 0) = (b < 0)
    THEN Abs(a) \div Abs(b)
    ELSE 0 - (Abs(a) \div Abs(b))

(* math.ceil(v / d) for d > 0. *)
CeilDiv(v, d) == IF v % d = 0 THEN v \div d ELSE (v \div d) + 1

(* Variant: rounds down to a multiple of 8. *)
PadVocab_Floor(v) == PadMultiple * (v \div PadMultiple)

(* 8 * math.ceil(tokenizer.vocab_size / 8) *)
PadVocab(v) == PadMultiple * CeilDiv(v, PadMultiple)

-----------------------------------------------------------------------------
(* Command lines and environments. *)

DefaultArgv ==
    [local_rank |-> <<>>, batch_size |-> DefaultBatchSize,
     num_gpus |-> DefaultNumGpus, num_epochs |-> DefaultNumEpochs,
     lr_warmup_proportion |-> "0.1", mixed_precision |-> FALSE,
     lr_policy |-> "lr_warmup", pretrained_bert_model |-> "bert-base-cased",
     bert_checkpoint |-> <<>>, bert_config |-> <<>>]

GoodEnv ==
    [train_txt |-> TRUE, dev_txt |-> TRUE, tensorboardX |-> TRUE,
     vocab |-> MaxVocab, examples |-> MaxData]

(* Every combination of the flags and of what is installed and present,    *)
(* with the numeric arguments at their argparse defaults.                  *)
InitFlags ==
    /\ \E lrk \in {<<>>, <<0>>}, mp \in BOOLEAN, lp \in LrPolicies,
          ck \in {<<>>, <<"bert.ckpt">>}, cf \in {<<>>, <<"bert_config.json">>} :
          argv = [DefaultArgv EXCEPT !.local_rank = lrk, !.mixed_precision = mp,
                                     !.lr_policy = lp, !.bert_checkpoint = ck,
                                     !.bert_config = cf]
    /\ \E tr \in BOOLEAN, dv \in BOOLEAN, tb \in BOOLEAN :
          env = [GoodEnv EXCEPT !.train_txt = tr, !.dev_txt = dv,
                                !.tensorboardX = tb]

(* Every combination of the numeric arguments, the schedule flags and the  *)
(* size of the training set, in a complete environment.                    *)
InitSizes ==
    /\ \E b \in (-1)..MaxBatch, g \in (-1)..MaxGpus, e \in 0..MaxEpochs,
          lp \in LrPolicies, w \in WarmupProportions :
          argv = [DefaultArgv EXCEPT !.batch_size = b, !.num_gpus = g,
                                     !.num_epochs = e, !.lr_policy = lp,
                                     !.lr_warmup_proportion = w]
    /\ \E n \in 0..MaxData : env = [GoodEnv EXCEPT !.examples = n]

(* Every tokenizer vocabulary size, for both tokenizers. *)
InitVocab ==
    /\ \E ck \in {<<>>, <<"bert.ckpt">>} :
          argv = [DefaultArgv EXCEPT !.bert_checkpoint = ck,
                                     !.bert_config = IF ck = <<>> THEN <<>>
                                                     ELSE <<"bert_config.json">>]
    /\ \E v \in 0..MaxVocab : env = [GoodEnv EXCEPT !.vocab = v]

Init ==
    /\ pc = "parse_args"
    /\ InitFlags \/ InitSizes \/ InitVocab
    /\ args = None
    /\ error = None
    /\ raised = <<>>
    /\ calls = <<>>
    /\ tb_writer = None
    /\ device = ""
    /\ optimization_level = ""
    /\ neural_factory = None
    /\ tokenizer = None
    /\ bert_model = None
    /\ vocab_size = <<>>
    /\ train_data_layer = None
    /\ ner_loss = None
    /\ train_loss = None
    /\ eval_data_layer = None
    /\ eval_logits = None
    /\ callback_train = None
    /\ train_data_size = <<>>
    /\ steps_per_epoch = <<>>
    /\ callback_eval = None
    /\ lr_policy_func = None
    /\ train_kwargs = None
-----------------------------------------------------------------------------
(* Variable groups, in the order the module body assigns them. *)
setupVars == <<tb_writer, device, optimization_level, neural_factory>>
modelVars == <<tokenizer, bert_model, vocab_size>>
trainPipeVars == <<train_data_layer, ner_loss, train_loss>>
evalPipeVars == <<eval_data_layer, eval_logits>>
driverVars == <<callback_train, train_data_size, steps_per_epoch,
                callback_eval, lr_policy_func, train_kwargs>>

(* The exception `type` is raised at the current statement and nothing     *)
(* catches it: the interpreter ends the run.                               *)
Propagate(type) ==
    /\ error' = [cls |-> type, stage |-> pc]
    /\ raised' = Append(raised, [cls |-> type, stage |-> pc])
    /\ pc' = "done"

(* The identity of the object the next framework call constructs. *)
NewId == Len(calls) + 1

ScheduleClass(policy) ==
    CASE policy = "lr_warmup" -> "WarmupAnnealing"
      [] policy = "lr_poly" -> "SquareAnnealing"
      [] policy = "lr_cosine" -> "CosineAnnealing"

(* The framework calls each statement group makes, in program order. *)
StageCalls(stage) ==
    CASE stage = "factory" -> <<"NeuralModuleFactory">>
      [] stage = "tokenizer" ->
            IF args.bert_checkpoint = <<>> THEN <<"NemoBertTokenizer">>
            ELSE <<"SentencePieceTokenizer">>
      [] stage = "special_tokens" -> <<"add_special_tokens">>
      [] stage = "bert" -> <<"BERT">>
      [] stage = "restore" -> <<"restore_from">>
      [] stage = "train_data_layer" -> <<"BertNERDataLayer">>
      [] stage = "ner_loss" -> <<"TokenClassificationLoss">>
      [] stage = "train_graph" ->
            <<"train_data_layer()", "bert_model()", "ner_loss()">>
      [] stage = "eval_data_layer" -> <<"BertNERDataLayer">>
      [] stage = "eval_graph" ->
            <<"eval_data_layer()", "bert_model()", "ner_loss()">>
      [] stage = "callback_train" -> <<"SimpleLossLoggerCallback">>
      [] stage = "steps_per_epoch" -> <<"len">>
      [] stage = "callback_eval" -> <<"EvaluatorCallback">>
      [] stage = "lr_policy" ->
            IF args.lr_policy \in ValidLrPolicies
            THEN <<ScheduleClass(args.lr_policy)>> ELSE <<>>
      [] stage = "train" -> <<"train">>
      [] OTHER -> <<>>

-----------------------------------------------------------------------------
(* The statements of the module body. *)

ParseArgs ==
    /\ pc = "parse_args"
    /\ args' = argv
    /\ pc' = "check_data"
    /\ UNCHANGED <<argv, env, error, raised, calls, setupVars, modelVars,
                   trainPipeVars, evalPipeVars, driverVars>>

(* Variant: the existence check covers dev.txt as well. *)
CheckDataFile_AlsoDev ==
    /\ pc = "check_data"
    /\ IF ~(env.train_txt /\ env.dev_txt)
       THEN Propagate("FileNotFoundError")
       ELSE pc' = "tensorboard" /\ UNCHANGED <<error, raised>>
    /\ UNCHANGED <<argv, env, args, calls, setupVars, modelVars,
                   trainPipeVars, evalPipeVars, driverVars>>

(* Variant: the existence check never raises. *)
CheckDataFile_NoRaise ==
    /\ pc = "check_data"
    /\ pc' = "tensorboard"
    /\ UNCHANGED <<argv, env, args, error, raised, calls, setupVars,
                   modelVars, trainPipeVars, evalPipeVars, driverVars>>

CheckDataFile ==
    /\ pc = "check_data"
    /\ IF ~env.train_txt
       THEN Propagate("FileNotFoundError")
       ELSE pc' = "tensorboard" /\ UNCHANGED <<error, raised>>
    /\ UNCHANGED <<argv, env, args, calls, setupVars, modelVars,
                   trainPipeVars, evalPipeVars, driverVars>>

(* try: import tensorboardX; SummaryWriter(...)                            *)
(* except ModuleNotFoundError: tb_writer = None                            *)
(* `outcome` is how the try body ends.  The import fails when the package  *)
(* is not installed; the constructor may raise anything.                   *)
TryTensorboard(catches) ==
    /\ pc = "tensorboard"
    /\ \E outcome \in IF env.tensorboardX
                      THEN {"ok", "ModuleNotFoundError", "ExternalError"}
                      ELSE {"ModuleNotFoundError"} :
          /\ calls' = IF env.tensorboardX
                      THEN Append(calls, "SummaryWriter") ELSE calls
          /\ IF outcome = "ok"
             THEN /\ tb_writer' = [cls |-> "SummaryWriter", id |-> NewId]
                  /\ pc' = "device"
                  /\ UNCHANGED <<error, raised>>
             ELSE IF outcome \in catches
             THEN /\ tb_writer' = None
                  /\ raised' = Append(raised, [cls |-> outcome, stage |-> pc])
                  /\ pc' = "device"
                  /\ UNCHANGED error
             ELSE /\ Propagate(outcome)
                  /\ UNCHANGED tb_writer
    /\ UNCHANGED <<argv, env, args, device, optimization_level,
                   neural_factory, modelVars, trainPipeVars, evalPipeVars,
                   driverVars>>

(* Variant: a bare except around the tensorboard block. *)
ImportTensorboard_CatchAll ==
    TryTensorboard({"ModuleNotFoundError", "ExternalError"})

ImportTensorboard == TryTensorboard({"ModuleNotFoundError"})

SelectDevice ==
    /\ pc = "device"
    /\ device' = IF args.local_rank # <<>> THEN "AllGpu" ELSE "GPU"
    /\ pc' = "optimization"
    /\ UNCHANGED <<argv, env, args, error, raised, calls, tb_writer,
                   optimization_level, neural_factory, modelVars,
                   trainPipeVars, evalPipeVars, driverVars>>

SelectOptimization ==
    /\ pc = "optimization"
    /\ optimization_level' = IF args.mixed_precision = TRUE THEN "mxprO1"
                             ELSE "mxprO0"
    /\ pc' = "factory"
    /\ UNCHANGED <<argv, env, args, error, raised, calls, tb_writer, device,
                   neural_factory, modelVars, trainPipeVars, evalPipeVars,
                   driverVars>>

CreateFactory ==
    /\ pc = "factory"
    /\ calls' = calls \o StageCalls(pc)
    /\ neural_factory' = [cls |-> "NeuralModuleFactory", id |-> NewId,
                          backend |-> "PyTorch",
                          local_rank |-> args.local_rank,
                          optimization_level |-> optimization_level,
                          placement |-> device]
    /\ pc' = "tokenizer"
    /\ UNCHANGED <<argv, env, args, error, raised, tb_writer, device,
                   optimization_level, modelVars, trainPipeVars,
                   evalPipeVars, driverVars>>

ConstructTokenizer ==
    /\ pc = "tokenizer"
    /\ calls' = calls \o StageCalls(pc)
    /\ IF args.bert_checkpoint = <<>>
       THEN /\ tokenizer' = [cls |-> "NemoBertTokenizer", id |-> NewId,
                             source |-> args.pretrained_bert_model,
                             special_tokens |-> <<>>,
                             vocab_size |-> env.vocab]
            /\ pc' = "bert"
       ELSE /\ tokenizer' = [cls |-> "SentencePieceTokenizer", id |-> NewId,
                             source |-> "tokenizer.model",
                             special_tokens |-> <<>>,
                             vocab_size |-> env.vocab]
            /\ pc' = "special_tokens"
    /\ UNCHANGED <<argv, env, args, error, raised, setupVars, bert_model,
                   vocab_size, trainPipeVars, evalPipeVars, driverVars>>

AddSpecialTokens ==
    /\ pc = "special_tokens"
    /\ calls' = calls \o StageCalls(pc)
    /\ tokenizer' = [tokenizer EXCEPT
                        !.special_tokens = <<"[MASK]", "[CLS]", "[SEP]">>]
    /\ pc' = "bert"
    /\ UNCHANGED <<argv, env, args, error, raised, setupVars, bert_model,
                   vocab_size, trainPipeVars, evalPipeVars, driverVars>>

(* Variant: the checkpoint branch is ignored. *)
ConstructBert_AlwaysPretrained ==
    /\ pc = "bert"
    /\ calls' = calls \o StageCalls(pc)
    /\ bert_model' = [cls |-> "BERT", id |-> NewId,
                      pretrained_model_name |-> <<args.pretrained_bert_model>>,
                      config_filename |-> <<>>,
                      factory |-> neural_factory.id, restored |-> <<>>]
    /\ pc' = "vocab_size"
    /\ UNCHANGED <<argv, env, args, error, raised, setupVars, tokenizer,
                   vocab_size, trainPipeVars, evalPipeVars, driverVars>>

ConstructBert ==
    /\ pc = "bert"
    /\ calls' = calls \o StageCalls(pc)
    /\ IF args.bert_checkpoint = <<>>
       THEN /\ bert_model' =
                  [cls |-> "BERT", id |-> NewId,
                   pretrained_model_name |-> <<args.pretrained_bert_model>>,
                   config_filename |-> <<>>,
                   factory |-> neural_factory.id, restored |-> <<>>]
            /\ pc' = "vocab_size"
       ELSE /\ bert_model' =
                  [cls |-> "BERT", id |-> NewId,
                   pretrained_model_name |-> <<>>,
                   config_filename |-> args.bert_config,
                   factory |-> neural_factory.id, restored |-> <<>>]
            /\ pc' = "restore"
    /\ UNCHANGED <<argv, env, args, error, raised, setupVars, tokenizer,
                   vocab_size, trainPipeVars, evalPipeVars, driverVars>>

RestoreCheckpoint ==
    /\ pc = "restore"
    /\ calls' = calls \o StageCalls(pc)
    /\ bert_model' = [bert_model EXCEPT !.restored = args.bert_checkpoint]
    /\ pc' = "vocab_size"
    /\ UNCHANGED <<argv, env, args, error, raised, setupVars, tokenizer,
                   vocab_size, trainPipeVars, evalPipeVars, driverVars>>

ComputeVocabSize ==
    /\ pc = "vocab_size"
    /\ vocab_size' = <<PadVocab(tokenizer.vocab_size)>>
    /\ pc' = "train_data_layer"
    /\ UNCHANGED <<argv, env, args, error, raised, calls, setupVars,
                   tokenizer, bert_model, trainPipeVars, evalPipeVars,
                   driverVars>>
-----------------------------------------------------------------------------
(* Training pipeline, evaluation pipeline, callbacks, schedule, driver. *)

DataLayer(file) ==
    [cls |-> "BertNERDataLayer", id |-> NewId, tokenizer |-> tokenizer.id,
     path_to_data |-> file, batch_size |-> args.batch_size,
     local_rank |-> args.local_rank, factory |-> neural_factory.id]

ConstructTrainDataLayer ==
    /\ pc = "train_data_layer"
    /\ calls' = calls \o StageCalls(pc)
    /\ train_data_layer' = DataLayer("train.txt")
    /\ pc' = "ner_loss"
    /\ UNCHANGED <<argv, env, args, error, raised, setupVars, modelVars,
                   ner_loss, train_loss, evalPipeVars, driverVars>>

ConstructLoss ==
    /\ pc = "ner_loss"
    /\ calls' = calls \o StageCalls(pc)
    /\ ner_loss' = [cls |-> "TokenClassificationLoss", id |-> NewId,
                    d_model_of |-> bert_model.id,
                    tag_ids_of |-> train_data_layer.id,
                    factory |-> neural_factory.id]
    /\ pc' = "train_graph"
    /\ UNCHANGED <<argv, env, args, error, raised, setupVars, modelVars,
                   train_data_layer, train_loss, evalPipeVars, driverVars>>

(* The tensors a data layer's outputs produce once chained through the     *)
(* encoder `enc` and the loss module `loss`.                               *)
Chain(layer, enc, loss) ==
    [cls |-> "NmTensor", data |-> layer.id, encoder |-> enc.id,
     loss |-> loss.id]

WireTrain ==
    /\ pc = "train_graph"
    /\ calls' = calls \o StageCalls(pc)
    /\ train_loss' = Chain(train_data_layer, bert_model, ner_loss)
    /\ pc' = "eval_data_layer"
    /\ UNCHANGED <<argv, env, args, error, raised, setupVars, modelVars,
                   train_data_layer, ner_loss, evalPipeVars, driverVars>>

ConstructEvalDataLayer ==
    /\ pc = "eval_data_layer"
    /\ calls' = calls \o StageCalls(pc)
    /\ eval_data_layer' = DataLayer("dev.txt")
    /\ pc' = "eval_graph"
    /\ UNCHANGED <<argv, env, args, error, raised, setupVars, modelVars,
                   trainPipeVars, eval_logits, driverVars>>

(* Variant: the evaluation pipeline gets a loss module of its own. *)
WireEval_OtherLoss ==
    /\ pc = "eval_graph"
    /\ calls' = calls \o StageCalls(pc)
    /\ eval_logits' = Chain(eval_data_layer, bert_model, [id |-> NewId])
    /\ pc' = "callback_train"
    /\ UNCHANGED <<argv, env, args, error, raised, setupVars, modelVars,
                   trainPipeVars, eval_data_layer, driverVars>>

WireEval ==
    /\ pc = "eval_graph"
    /\ calls' = calls \o StageCalls(pc)
    /\ eval_logits' = Chain(eval_data_layer, bert_model, ner_loss)
    /\ pc' = "callback_train"
    /\ UNCHANGED <<argv, env, args, error, raised, setupVars, modelVars,
                   trainPipeVars, eval_data_layer, driverVars>>

CreateCallbackTrain ==
    /\ pc = "callback_train"
    /\ calls' = calls \o StageCalls(pc)
    /\ callback_train' = [cls |-> "SimpleLossLoggerCallback", id |-> NewId,
                          tensors |-> <<train_loss>>,
                          tb_writer |-> tb_writer]
    /\ pc' = "steps_per_epoch"
    /\ UNCHANGED <<argv, env, args, error, raised, setupVars, modelVars,
                   trainPipeVars, evalPipeVars, train_data_size,
                   steps_per_epoch, callback_eval, lr_policy_func,
                   train_kwargs>>

(* train_data_size = len(train_data_layer)                                 *)
(* steps_per_epoch = int(train_data_size / (batch_size * num_gpus))        *)
ComputeStepsPerEpoch ==
    /\ pc = "steps_per_epoch"
    /\ calls' = calls \o StageCalls(pc)
    /\ train_data_size' = <<env.examples>>
    /\ IF args.batch_size * args.num_gpus = 0
       THEN /\ Propagate("ZeroDivisionError")
            /\ UNCHANGED steps_per_epoch
       ELSE /\ steps_per_epoch' =
                  <<IntTrueDiv(env.examples,
                               args.batch_size * args.num_gpus)>>
            /\ pc' = "callback_eval"
            /\ UNCHANGED <<error, raised>>
    /\ UNCHANGED <<argv, env, args, setupVars, modelVars, trainPipeVars,
                   evalPipeVars, callback_train, callback_eval,
                   lr_policy_func, train_kwargs>>

CreateCallbackEval ==
    /\ pc = "callback_eval"
    /\ calls' = calls \o StageCalls(pc)
    /\ callback_eval' = [cls |-> "EvaluatorCallback", id |-> NewId,
                         eval_tensors |-> <<eval_logits>>,
                         tb_writer |-> tb_writer,
                         eval_step |-> steps_per_epoch[1]]
    /\ pc' = "lr_policy"
    /\ UNCHANGED <<argv, env, args, error, raised, setupVars, modelVars,
                   trainPipeVars, evalPipeVars, callback_train,
                   train_data_size, steps_per_epoch, lr_policy_func,
                   train_kwargs>>

(* The schedule object `cls(total_steps, warmup_ratio=ratio)`. *)
Schedule(cls, ratio) ==
    [cls |-> cls, id |-> NewId,
     total_steps |-> args.num_epochs * steps_per_epoch[1],
     warmup_ratio |-> ratio]

(* Variant: lr_poly and lr_cosine exchanged. *)
SelectLrPolicy_Swapped ==
    /\ pc = "lr_policy"
    /\ calls' = calls \o StageCalls(pc)
    /\ IF args.lr_policy = "lr_warmup"
       THEN /\ lr_policy_func' =
                  Schedule("WarmupAnnealing", <<args.lr_warmup_proportion>>)
            /\ pc' = "train"
            /\ UNCHANGED <<error, raised>>
       ELSE IF args.lr_policy = "lr_poly"
       THEN /\ lr_policy_func' = Schedule("CosineAnnealing", <<>>)
            /\ pc' = "train"
            /\ UNCHANGED <<error, raised>>
       ELSE IF args.lr_policy = "lr_cosine"
       THEN /\ lr_policy_func' = Schedule("SquareAnnealing", <<>>)
            /\ pc' = "train"
            /\ UNCHANGED <<error, raised>>
       ELSE /\ Propagate("ValueError")
            /\ UNCHANGED lr_policy_func
    /\ UNCHANGED <<argv, env, args, setupVars, modelVars, trainPipeVars,
                   evalPipeVars, callback_train, train_data_size,
                   steps_per_epoch, callback_eval, train_kwargs>>

(* Variant: an unknown policy falls back to warmup. *)
SelectLrPolicy_DefaultsToWarmup ==
    /\ pc = "lr_policy"
    /\ calls' = calls \o StageCalls(pc)
    /\ IF args.lr_policy = "lr_poly"
       THEN lr_policy_func' = Schedule("SquareAnnealing", <<>>)
       ELSE IF args.lr_policy = "lr_cosine"
       THEN lr_policy_func' = Schedule("CosineAnnealing", <<>>)
       ELSE lr_policy_func' =
                Schedule("WarmupAnnealing", <<args.lr_warmup_proportion>>)
    /\ pc' = "train"
    /\ UNCHANGED <<argv, env, args, error, raised, setupVars, modelVars,
                   trainPipeVars, evalPipeVars, callback_train,
                   train_data_size, steps_per_epoch, callback_eval,
                   train_kwargs>>

SelectLrPolicy ==
    /\ pc = "lr_policy"
    /\ calls' = calls \o StageCalls(pc)
    /\ IF args.lr_policy = "lr_warmup"
       THEN /\ lr_policy_func' =
                  Schedule("WarmupAnnealing", <<args.lr_warmup_proportion>>)
            /\ pc' = "train"
            /\ UNCHANGED <<error, raised>>
       ELSE IF args.lr_policy = "lr_poly"
       THEN /\ lr_policy_func' = Schedule("SquareAnnealing", <<>>)
            /\ pc' = "train"
            /\ UNCHANGED <<error, raised>>
       ELSE IF args.lr_policy = "lr_cosine"
       THEN /\ lr_policy_func' = Schedule("CosineAnnealing", <<>>)
            /\ pc' = "train"
            /\ UNCHANGED <<error, raised>>
       ELSE /\ Propagate("ValueError")
            /\ UNCHANGED lr_policy_func
    /\ UNCHANGED <<argv, env, args, setupVars, modelVars, trainPipeVars,
                   evalPipeVars, callback_train, train_data_size,
                   steps_per_epoch, callback_eval, train_kwargs>>

Train ==
    /\ pc = "train"
    /\ calls' = calls \o StageCalls(pc)
    /\ train_kwargs' = [cls |-> "kwargs",
                        tensors_to_optimize |-> <<train_loss>>,
                        callbacks |-> <<callback_train.id, callback_eval.id>>,
                        lr_policy |-> lr_policy_func.id,
                        num_epochs |-> args.num_epochs]
    /\ pc' = "done"
    /\ UNCHANGED <<argv, env, args, error, raised, setupVars, modelVars,
                   trainPipeVars, evalPipeVars, callback_train,
                   train_data_size, steps_per_epoch, callback_eval,
                   lr_policy_func>>

(* A framework call of the current statement group raises: the calls up to *)
(* and including the failing one were made, no global is assigned, and the *)
(* exception propagates.  The try block around the tensorboard writer is   *)
(* modelled in ImportTensorboard.                                          *)
ExternalFailure ==
    /\ pc # "tensorboard"
    /\ StageCalls(pc) # <<>>
    /\ \E k \in 1..Len(StageCalls(pc)) :
          calls' = calls \o SubSeq(StageCalls(pc), 1, k)
    /\ Propagate("ExternalError")
    /\ UNCHANGED <<argv, env, args, setupVars, modelVars, trainPipeVars,
                   evalPipeVars, driverVars>>

Next ==
    \/ ParseArgs
    \/ CheckDataFile
    \/ ImportTensorboard
    \/ SelectDevice
    \/ SelectOptimization
    \/ CreateFactory
    \/ ConstructTokenizer
    \/ AddSpecialTokens
    \/ ConstructBert
    \/ RestoreCheckpoint
    \/ ComputeVocabSize
    \/ ConstructTrainDataLayer
    \/ ConstructLoss
    \/ WireTrain
    \/ ConstructEvalDataLayer
    \/ WireEval
    \/ CreateCallbackTrain
    \/ ComputeStepsPerEpoch
    \/ CreateCallbackEval
    \/ SelectLrPolicy
    \/ Train
    \/ ExternalFailure

Spec == Init /\ [][Next]_vars
-----------------------------------------------------------------------------
(* Reading the call history. *)

Called(f) == \E i \in 1..Len(calls) : calls[i] = f
Count(f) == Cardinality({i \in 1..Len(calls) : calls[i] = f})
First(f) == CHOOSE i \in 1..Len(calls) :
                calls[i] = f /\ \A j \in 1..(i - 1) : calls[j] # f

ScheduleClasses == {"WarmupAnnealing", "SquareAnnealing", "CosineAnnealing"}
TokenizerClasses == {"NemoBertTokenizer", "SentencePieceTokenizer"}
CountIn(S) == Cardinality({i \in 1..Len(calls) : calls[i] \in S})

(* The statement groups of the module body, in source order. *)
StageOrder ==
    <<"parse_args", "check_data", "tensorboard", "device", "optimization",
      "factory", "tokenizer", "special_tokens", "bert", "restore",
      "vocab_size", "train_data_layer", "ner_loss", "train_graph",
      "eval_data_layer", "eval_graph", "callback_train", "steps_per_epoch",
      "callback_eval", "lr_policy", "train", "done">>
Rank(stage) == CHOOSE i \in 1..Len(StageOrder) : StageOrder[i] = stage

NothingConstructed ==
    /\ calls = <<>>
    /\ tb_writer = None /\ neural_factory = None
    /\ tokenizer = None /\ bert_model = None
    /\ train_data_layer = None /\ ner_loss = None
    /\ eval_data_layer = None
    /\ lr_policy_func = None /\ train_kwargs = None

-----------------------------------------------------------------------------
(* C1: when train.txt is not a file the run can only end in the            *)
(* FileNotFoundError of the existence check, it does end there (the check  *)
(* is enabled), and no framework call has been made and no later global    *)
(* assigned: no writer, factory, tokenizer, BERT module, data layer, loss  *)
(* or train call.                                                          *)
C1_MissingTrainFile ==
    ~env.train_txt =>
        /\ pc \in {"parse_args", "check_data", "done"}
        /\ pc # "done" => ENABLED Next
        /\ pc = "done" =>
              error = [cls |-> "FileNotFoundError", stage |-> "check_data"]
        /\ NothingConstructed

C1_Witness ==
    /\ ~env.train_txt
    /\ pc = "done"
    /\ error.cls = "FileNotFoundError"

(* C2: with an --lr_policy outside the three names no schedule is          *)
(* constructed and train is never invoked; a run that got as far as the    *)
(* selection ends in the ValueError raised there.                          *)
C2_InvalidLrPolicy ==
    (args # None /\ args.lr_policy \notin ValidLrPolicies) =>
        /\ lr_policy_func = None
        /\ train_kwargs = None
        /\ CountIn(ScheduleClasses \cup {"train"}) = 0
        /\ pc # "train"
        /\ (pc = "done" /\ callback_eval # None) =>
              error = [cls |-> "ValueError", stage |-> "lr_policy"]

C2_Witness ==
    /\ pc = "done"
    /\ error.cls = "ValueError"
    /\ callback_eval # None

(* C3: for batch_size >= 1 and num_gpus >= 1, steps_per_epoch is the       *)
(* unique q with q * d <= train_data_size < (q + 1) * d, where             *)
(* d = batch_size * num_gpus.                                              *)
C3_StepsPerEpochIsFloorDivision ==
    (steps_per_epoch # <<>> /\ args.batch_size >= 1 /\ args.num_gpus >= 1) =>
        LET n == train_data_size[1]
            d == args.batch_size * args.num_gpus
            q == steps_per_epoch[1]
        IN  /\ n >= 0
            /\ q * d <= n
            /\ n < (q + 1) * d
            /\ \A r \in 0..n : (r * d <= n /\ n < (r + 1) * d) => r = q

C3_Witness ==
    /\ steps_per_epoch = <<2>>
    /\ train_data_size = <<7>>
    /\ args.batch_size * args.num_gpus = 3

(* C4: the padded vocab_size is a multiple of 8, lies in [v, v + 8) for    *)
(* the tokenizer's vocabulary size v, equals v exactly when v is a         *)
(* multiple of 8, and padding it again changes nothing.                    *)
C4_VocabPaddedToMultipleOf8 ==
    vocab_size # <<>> =>
        LET v == tokenizer.vocab_size
            p == vocab_size[1]
        IN  /\ v >= 0
            /\ p % 8 = 0
            /\ v <= p
            /\ p < v + 8
            /\ (v % 8 = 0) <=> (p = v)
            /\ PadVocab(p) = p

C4_Witness ==
    /\ vocab_size = <<16>>
    /\ tokenizer.vocab_size = 9

TensorboardMissing == [cls |-> "ModuleNotFoundError", stage |-> "tensorboard"]

(* C5, as stated: every failure raised during the run ends the run where   *)
(* it is raised.                                                           *)
C5_EveryFailureEndsTheRun ==
    raised # <<>> => (pc = "done" /\ error = raised[Len(raised)])

(* C5, amended: the one failure the script catches is a                    *)
(* ModuleNotFoundError raised in the tensorboardX try block, after which   *)
(* tb_writer is None and the run goes on; every other failure ends the run *)
(* where it is raised, and a run that ends without an error has called     *)
(* train.                                                                  *)
C5_OnlyTensorboardFailureIsCaught ==
    /\ error # None =>
          /\ pc = "done"
          /\ raised # <<>>
          /\ error = raised[Len(raised)]
          /\ ~ENABLED Next
    /\ \A i \in 1..Len(raised) :
          (i < Len(raised) \/ error = None) =>
              /\ raised[i] = TensorboardMissing
              /\ tb_writer = None
    /\ (pc = "done" /\ error = None) => train_kwargs # None

C5_Witness ==
    /\ raised = <<TensorboardMissing>>
    /\ error = None
    /\ pc = "done"
    /\ env.tensorboardX

(* C6: the statement groups run in source order, each at most once; train  *)
(* is called at most once, and only after the dataset check passed, both   *)
(* pipelines were wired to the one encoder and the one loss module, both   *)
(* callbacks exist and a schedule was selected.                            *)
C6_ReadyForTrain ==
    Called("train") =>
        /\ Count("train") = 1
        /\ env.train_txt
        /\ train_loss # None /\ eval_logits # None
        /\ train_loss.data = train_data_layer.id
        /\ eval_logits.data = eval_data_layer.id
        /\ train_data_layer.id # eval_data_layer.id
        /\ train_loss.encoder = bert_model.id
        /\ eval_logits.encoder = bert_model.id
        /\ train_loss.loss = ner_loss.id
        /\ eval_logits.loss = ner_loss.id
        /\ callback_train # None /\ callback_eval # None
        /\ callback_train.id < callback_eval.id
        /\ lr_policy_func # None
        /\ callback_eval.id < lr_policy_func.id
        /\ lr_policy_func.id < First("train")

C6_StagesInOrder ==
    /\ []C6_ReadyForTrain
    /\ [][Rank(pc') > Rank(pc)]_vars

C6_Witness ==
    /\ pc = "done"
    /\ error = None
    /\ Called("train")
    /\ Len(calls) >= 14

(* C7: lr_warmup selects WarmupAnnealing with warmup_ratio =                *)
(* --lr_warmup_proportion, lr_poly selects SquareAnnealing, lr_cosine      *)
(* selects CosineAnnealing; the schedule's total steps are                 *)
(* num_epochs * steps_per_epoch; one schedule is constructed per run and   *)
(* it is the one passed to train.                                          *)
C7_LrPolicyThreeWay ==
    /\ train_kwargs # None =>
          /\ lr_policy_func # None
          /\ train_kwargs.lr_policy = lr_policy_func.id
    /\ CountIn(ScheduleClasses) <= 1
    /\ lr_policy_func # None =>
          /\ CountIn(ScheduleClasses) = 1
          /\ calls[lr_policy_func.id] = lr_policy_func.cls
          /\ lr_policy_func.total_steps =
                args.num_epochs * steps_per_epoch[1]
          /\ args.lr_policy = "lr_warmup" =>
                /\ lr_policy_func.cls = "WarmupAnnealing"
                /\ lr_policy_func.warmup_ratio = <<args.lr_warmup_proportion>>
          /\ args.lr_policy = "lr_poly" =>
                lr_policy_func.cls = "SquareAnnealing"
          /\ args.lr_policy = "lr_cosine" =>
                lr_policy_func.cls = "CosineAnnealing"
          /\ args.lr_policy \in ValidLrPolicies

C7_Witness ==
    /\ train_kwargs # None
    /\ lr_policy_func.cls = "SquareAnnealing"
    /\ lr_policy_func.total_steps = 14

(* C8, as stated: with dev.txt missing and train.txt present the script's  *)
(* validation fails the run before anything is constructed.                *)
C8_MissingDevFileStopsBeforeConstruction ==
    (env.train_txt /\ ~env.dev_txt) =>
        /\ pc \in {"parse_args", "check_data", "done"}
        /\ NothingConstructed

(* C8, amended: only a missing train.txt fails the script's validation.    *)
(* With dev.txt missing and train.txt present the validation passes, and   *)
(* dev.txt is first used when the evaluation data layer is constructed,    *)
(* after the factory, tokenizer, BERT module, training data layer and loss *)
(* module were constructed and the training pipeline wired.                *)
C8_MissingDevFilePassesValidation ==
    (env.train_txt /\ ~env.dev_txt) =>
        /\ error # [cls |-> "FileNotFoundError", stage |-> "check_data"]
        /\ pc = "check_data" => ENABLED (CheckDataFile /\ pc' = "tensorboard")
        /\ Rank(pc) < Rank("eval_data_layer") => eval_data_layer = None
        /\ pc = "eval_data_layer" =>
              /\ neural_factory # None /\ tokenizer # None
              /\ bert_model # None /\ train_data_layer # None
              /\ ner_loss # None /\ train_loss # None
              /\ Count("BertNERDataLayer") = 1

C8_Witness ==
    /\ env.train_txt /\ ~env.dev_txt
    /\ pc = "eval_data_layer"

(* C9: without --bert_checkpoint the tokenizer and the BERT module are     *)
(* built from --pretrained_bert_model and restore_from is never called;    *)
(* with it a SentencePiece tokenizer is built and given [MASK], [CLS],     *)
(* [SEP], the BERT module is built from --bert_config and restore_from is  *)
(* called once, after the module is constructed and before vocab_size or   *)
(* any data layer.  One tokenizer and one BERT module exist and both       *)
(* pipelines use them.                                                     *)
C9_TokenizerAndEncoderChoice ==
    /\ CountIn(TokenizerClasses) <= 1
    /\ Count("BERT") <= 1
    /\ Count("restore_from") <= 1
    /\ tokenizer # None =>
          IF args.bert_checkpoint = <<>>
          THEN /\ tokenizer.cls = "NemoBertTokenizer"
               /\ tokenizer.source = args.pretrained_bert_model
               /\ ~Called("add_special_tokens")
          ELSE /\ tokenizer.cls = "SentencePieceTokenizer"
               /\ bert_model # None =>
                     tokenizer.special_tokens = <<"[MASK]", "[CLS]", "[SEP]">>
    /\ bert_model # None =>
          IF args.bert_checkpoint = <<>>
          THEN /\ bert_model.pretrained_model_name =
                     <<args.pretrained_bert_model>>
               /\ bert_model.restored = <<>>
               /\ ~Called("restore_from")
          ELSE /\ bert_model.pretrained_model_name = <<>>
               /\ bert_model.config_filename = args.bert_config
               /\ (vocab_size # <<>> \/ Called("BertNERDataLayer")) =>
                     /\ Count("restore_from") = 1
                     /\ bert_model.restored = args.bert_checkpoint
                     /\ First("BERT") < First("restore_from")
                     /\ Called("BertNERDataLayer") =>
                           First("restore_from") < First("BertNERDataLayer")
    /\ train_data_layer # None => train_data_layer.tokenizer = tokenizer.id
    /\ eval_data_layer # None => eval_data_layer.tokenizer = tokenizer.id
    /\ train_loss # None => train_loss.encoder = bert_model.id
    /\ eval_logits # None => eval_logits.encoder = bert_model.id

C9_Witness ==
    /\ eval_logits # None
    /\ args.bert_checkpoint = <<"bert.ckpt">>
    /\ bert_model.restored = <<"bert.ckpt">>
    /\ Called("restore_from")

(* C10: train is never called with a degenerate step count: whenever train *)
(* is called, steps_per_epoch >= 1, eval_step >= 1 and the schedule's      *)
(* total steps are at least num_epochs.                                    *)
C10_NoDegenerateStepCount ==
    Called("train") =>
        /\ steps_per_epoch[1] >= 1
        /\ callback_eval.eval_step >= 1
        /\ lr_policy_func.total_steps >= args.num_epochs

====
